---- MODULE Spec2Model ----
(***************************************************************************)
(* Startup orchestration of "Discord System V4": the two startup scripts   *)
(* src/bot.js (banner script) and src/unnamed/part_000 (permissive         *)
(* script).  One behaviour of the model is one run of one of the scripts   *)
(* in one environment.  The external collaborators (update checker,        *)
(* database initializer, configuration validator, client class, dashboard  *)
(* launcher, handler files) are not part of the repository: every require  *)
(* and every call of one of them is an input drawn from the outcomes the   *)
(* call site can observe (module missing, export missing, returns,         *)
(* throws).                                                                *)
(***************************************************************************)
EXTENDS Naturals, Sequences, FiniteSets

VARIABLES
  script,                \* which startup script runs: "bot" | "part"
  env,                   \* process.env after dotenv: BOT_TOKEN, TOKEN
  pc,                    \* position of the main async IIFE
  checkForUpdates,       \* binding of the variable of that name
  initializeMongoose,    \* binding of the variable of that name
  validateConfiguration, \* binding of the variable of that name
  BotClient,             \* binding of the variable of that name
  client,                \* the constructed client, or NoClient
  handlers,              \* process events that have a listener installed
  proc,                  \* the process: running / exited / crashed, exit code, cause
  steps,                 \* the steps and collaborator calls executed so far, in order
  loginCalls,            \* the arguments client.login was called with, in order
  connected,             \* client.login has completed successfully
  inFlight,              \* loader promises started and not awaited (bot.js)
  eventsDir,             \* what the run has seen of src/events: "unknown" | "absent" | "present"
  collaboratorSeen,      \* some optional collaborator was found present in this run
  candidate,             \* index of the dashboard launcher path tried next (part_000), else 0
  dashboard,             \* tryLaunchDashboard (part_000): launches completed, value returned
  last                   \* the most recent action: name, collaborator outcome, lines logged, scan

vars == <<script, env, pc, checkForUpdates, initializeMongoose, validateConfiguration,
          BotClient, client, handlers, proc, steps, loginCalls, connected, inFlight,
          eventsDir, collaboratorSeen, candidate, dashboard, last>>

(***************************************************************************)
(* Bounds of the model.                                                    *)
(***************************************************************************)
\* Largest number of .js files in a scanned handler directory.
MaxFiles == 2

(***************************************************************************)
(* Values.                                                                 *)
(***************************************************************************)
Unset == "<unset>"
\* Before new BotClient() there is no client.
NoClient == [kind |-> "none", logger |-> FALSE, dashboard |-> FALSE, commands |-> {},
             listeners |-> 0]
\* The frame of an action that scans no directory.
NoScan == [native |-> "none", dir |-> "none", hasMap |-> FALSE, files |-> <<>>,
           registered |-> 0, warnings |-> 0, commands |-> {}]
NoCode == "<none>"

\* tryLaunchDashboard has not returned and no launcher has completed.
NoLaunch == [completed |-> 0, result |-> "none"]

\* Values of the two environment variables in the modelled environments.
PrimaryValues == {Unset, "abc123"}
AlternateValues == {Unset, "xyz789"}

\* Names a command file may export as cmd.name.
CommandNames == {"ping", "help"}

\* JavaScript truthiness of an environment value (undefined and "" are falsy).
Truthy(v) == v \notin {Unset, ""}

\* a || b on environment values.
OrElse(a, b) == IF Truthy(a) THEN a ELSE b

Frame(a, o, lines) == [act |-> a, outcome |-> o, out |-> lines, scan |-> NoScan]

Running == proc.status = "running"

\* The outcomes of a guarded logger call, client.logger && client.logger.f && client.logger.f(..):
\* no logger, or the call returns a falsy or a truthy value, or it throws.
LoggerResults(c) ==
  IF ~c.logger THEN {"absent"}
  ELSE IF c.kind = "Minimal" THEN {"falsy"}
  ELSE {"falsy", "truthy", "throws"}

\* The outcomes of awaiting client.login(token) with a token: MinimalBotClient's
\* login only pretends and returns; any other client's resolves or rejects.
LoginOutcomes(kind) == IF kind = "Minimal" THEN {"ok"} ELSE {"ok", "threw"}

\* What such a call writes.
ClientLine(r, tag) == IF r \in {"falsy", "truthy"} THEN {<<"client", tag>>} ELSE {}

\* The outcomes of calling a module-level binding of bot.js: the no-op fallback
\* returns; what a module that loaded exports returns or throws (a module that
\* loaded without the export makes the call itself a TypeError: it throws).
CallOutcomes(binding) == IF binding = "noop" THEN {"ok"} ELSE {"ok", "threw"}

\* Which capabilities a client of each class exposes: the two fallback classes
\* define them, a project's own class may or may not.
Capability(kind, name) ==
  CASE kind = "Minimal" -> {name \in {"loadCommands", "loadCommandTests", "loadEvents", "login"}}
    [] kind = "Fallback" -> {name \in {"loadCommands", "loadEvents", "login"}}
    [] OTHER -> BOOLEAN

\* The clients new BotClient() can produce for each class.
NewClients(kind) ==
  CASE kind = "Minimal" ->
         {[kind |-> kind, logger |-> TRUE, dashboard |-> FALSE, commands |-> {}, listeners |-> 0]}
    [] kind = "Fallback" ->
         {[kind |-> kind, logger |-> FALSE, dashboard |-> FALSE, commands |-> {}, listeners |-> 0]}
    [] OTHER ->
         {[kind |-> kind, logger |-> l, dashboard |-> d, commands |-> {}, listeners |-> 0] :
            l \in BOOLEAN, d \in BOOLEAN}

\* process.exit(code): the process ends at once, nothing after it runs.
Exit(code, cause) ==
  /\ proc' = [status |-> "exited", code |-> code, cause |-> cause]
  /\ pc' = "exited"

\* What Node does with the rejected promise of the main async IIFE: with a listener
\* for unhandledRejection the listener runs and the process lives on; without one the
\* process dies with code 1 (--unhandled-rejections=throw, the default from Node 15)
\* or only warns and lives on (=warn, the default before).
RejectionModes == IF "unhandledRejection" \in handlers THEN {"handled"} ELSE {"throw", "warn"}

IIFERejects(cause) ==
  \E mode \in RejectionModes :
    IF mode = "throw"
      THEN /\ proc' = [status |-> "crashed", code |-> 1, cause |-> cause]
           /\ pc' = "crashed"
      ELSE /\ proc' = [proc EXCEPT !.cause = cause]
           /\ pc' = "aborted"

(***************************************************************************)
(* src/bot.js                                                              *)
(***************************************************************************)
\* Module level: the four guarded requires.
bot_require ==
  /\ script = "bot" /\ pc = "start" /\ Running
  /\ \E cu \in {"noop", "fn"}, im \in {"noop", "fn"}, vc \in {"noop", "fn"},
        bc \in {"Minimal", "class", "undef"} :
       /\ checkForUpdates' = cu
       /\ initializeMongoose' = im
       /\ validateConfiguration' = vc
       /\ BotClient' = bc
       /\ collaboratorSeen' = ({cu, im, vc} # {"noop"})
  /\ pc' = "banner"
  /\ steps' = Append(steps, "require")
  /\ last' = Frame("require", "none", {})
  /\ UNCHANGED <<script, env, client, handlers, proc, loginCalls, connected, inFlight, eventsDir, candidate, dashboard>>

\* printStartupBanner with USE_FIGLET = false.
bot_printStartupBanner ==
  /\ script = "bot" /\ pc = "banner" /\ Running
  /\ pc' = "validate"
  /\ steps' = Append(steps, "banner")
  /\ last' = Frame("banner", "none", {<<"console", "banner">>})
  /\ UNCHANGED <<script, env, checkForUpdates, initializeMongoose, validateConfiguration,
                 BotClient, client, handlers, proc, loginCalls, connected, inFlight,
                 eventsDir, collaboratorSeen, candidate, dashboard>>

\* A banner script that treats a validation failure as the permissive script does:
\* it logs the error and goes on to construct the client.
bot_validateConfiguration_lenient ==
  /\ script = "bot" /\ pc = "validate" /\ Running
  /\ steps' = Append(steps, "validateConfiguration")
  /\ \E o \in CallOutcomes(validateConfiguration) :
       last' = Frame("validateConfiguration", o,
                     IF o = "threw" THEN {<<"console", "Configuration validation failed">>} ELSE {})
  /\ pc' = "construct"
  /\ UNCHANGED <<script, env, checkForUpdates, initializeMongoose, validateConfiguration,
                 BotClient, client, handlers, proc, loginCalls, connected, inFlight,
                 eventsDir, collaboratorSeen, candidate, dashboard>>


\* validateConfiguration(); a throw is logged and ends the process.
bot_validateConfiguration ==
  /\ script = "bot" /\ pc = "validate" /\ Running
  /\ steps' = Append(steps, "validateConfiguration")
  /\ \E o \in CallOutcomes(validateConfiguration) :
       IF o = "threw"
         THEN /\ last' = Frame("validateConfiguration", o,
                               {<<"console", "Configuration validation failed">>})
              /\ Exit(1, "validation")
         ELSE /\ last' = Frame("validateConfiguration", o, {})
              /\ pc' = "construct"
              /\ UNCHANGED proc
  /\ UNCHANGED <<script, env, checkForUpdates, initializeMongoose, validateConfiguration,
                 BotClient, client, handlers, loginCalls, connected, inFlight,
                 eventsDir, collaboratorSeen, candidate, dashboard>>

\* const client = new BotClient(): outside every try.
bot_newBotClient ==
  /\ script = "bot" /\ pc = "construct" /\ Running
  /\ steps' = Append(steps, "newBotClient")
  /\ \/ /\ BotClient # "undef"
        /\ \E c \in NewClients(BotClient) : client' = c
        /\ pc' = "loadCommands"
        /\ last' = Frame("newBotClient", "ok", {})
        /\ UNCHANGED proc
     \/ /\ BotClient \in {"undef", "class"}
        /\ last' = Frame("newBotClient", "threw", {})
        /\ IIFERejects("constructor")
        /\ UNCHANGED client
  /\ UNCHANGED <<script, env, checkForUpdates, initializeMongoose, validateConfiguration,
                 BotClient, handlers, loginCalls, connected, inFlight, eventsDir,
                 collaboratorSeen, candidate, dashboard>>

\* The outcomes of calling a loader without awaiting it: it returns, it throws
\* synchronously, or it returns a promise that is still pending.
LoaderOutcomes(kind) == IF kind = "Minimal" THEN {"ok"} ELSE {"ok", "threw", "pending"}

\* if (typeof client.f === 'function') { try { client.f(..) } catch { logger.error } }
bot_callLoader(name, next) ==
  /\ script = "bot" /\ pc = name /\ Running
  /\ steps' = Append(steps, name)
  /\ \E has \in Capability(client.kind, name) :
       IF ~has
         THEN /\ last' = Frame(name, "absent", {})
              /\ pc' = next
              /\ UNCHANGED <<inFlight, proc, collaboratorSeen>>
         ELSE /\ collaboratorSeen' = (collaboratorSeen \/ client.kind = "class")
              /\ \E o \in LoaderOutcomes(client.kind), r \in LoggerResults(client) :
                   /\ inFlight' = IF o = "pending" THEN inFlight \cup {name} ELSE inFlight
                   /\ IF o = "threw" /\ r = "throws"
                        THEN /\ last' = Frame(name, o, {})
                             /\ IIFERejects("logger")
                        ELSE /\ last' = Frame(name, o,
                                       IF o = "threw" THEN ClientLine(r, "Failed to load") ELSE {})
                             /\ pc' = next
                             /\ UNCHANGED proc
  /\ UNCHANGED <<script, env, checkForUpdates, initializeMongoose, validateConfiguration,
                 BotClient, client, handlers, loginCalls, connected, eventsDir, candidate, dashboard>>

bot_loadCommands == bot_callLoader("loadCommands", "loadCommandTests")

bot_loadCommandTests == bot_callLoader("loadCommandTests", "loadEvents")

bot_loadEvents == bot_callLoader("loadEvents", "install")

\* process.on('unhandledRejection', ..): the only listener bot.js installs.
bot_installHandler ==
  /\ script = "bot" /\ pc = "install" /\ Running
  /\ handlers' = handlers \cup {"unhandledRejection"}
  /\ pc' = "update"
  /\ steps' = Append(steps, "installHandlers")
  /\ last' = Frame("installHandlers", "none", {})
  /\ UNCHANGED <<script, env, checkForUpdates, initializeMongoose, validateConfiguration,
                 BotClient, client, proc, loginCalls, connected, inFlight, eventsDir,
                 collaboratorSeen, candidate, dashboard>>

\* The catch of the startup flow: log through the client's logger when there is one,
\* through console.error when that call throws, then process.exit(1).
bot_startupCatch(a, o, cause, lines) ==
  /\ \E r \in LoggerResults(client) :
       last' = Frame(a, o, lines \cup
                 (IF r = "throws" THEN {<<"console", "Startup error">>}
                                  ELSE ClientLine(r, "Startup error")))
  /\ Exit(1, cause)

\* await checkForUpdates(): the first statement of the startup flow's try.
bot_checkForUpdates ==
  /\ script = "bot" /\ pc = "update" /\ Running
  /\ steps' = Append(steps, "checkForUpdates")
  /\ \E o \in CallOutcomes(checkForUpdates) :
       IF o = "threw"
         THEN bot_startupCatch("checkForUpdates", o, "checkForUpdates", {})
         ELSE /\ last' = Frame("checkForUpdates", o, {})
              /\ pc' = "dashboardOrDb"
              /\ UNCHANGED proc
  /\ UNCHANGED <<script, env, checkForUpdates, initializeMongoose, validateConfiguration,
                 BotClient, client, handlers, loginCalls, connected, inFlight, eventsDir,
                 collaboratorSeen, candidate, dashboard>>

\* The dashboard modules require('@root/dashboard/launch') can find: none (require
\* throws), one without a launch function, one whose launch completes or throws.
DashboardModules == {"missing", "invalid", "launchOk", "launchThrows"}

\* A branch that never looks at the flag: the database is always initialised.
hasDashboard_never == FALSE

\* const hasDashboard = client && client.config && client.config.DASHBOARD
\*                      && client.config.DASHBOARD.enabled
hasDashboard == client.dashboard

\* if (hasDashboard) { launch the dashboard } else { await initializeMongoose() },
\* each in its own try whose catch logs through the client's logger.
bot_dashboardOrDb ==
  /\ script = "bot" /\ pc = "dashboardOrDb" /\ Running
  /\ IF hasDashboard
       THEN /\ steps' = Append(steps, "dashboard")
            /\ \E m \in DashboardModules, r \in LoggerResults(client), r2 \in LoggerResults(client) :
                 LET bodyThrows == m \in {"missing", "launchThrows"} \/ r = "throws"
                     bodyLines == IF m = "missing" THEN {}
                                  ELSE ClientLine(r, IF m = "invalid"
                                                       THEN "Dashboard launch module not found or invalid"
                                                       ELSE "Launching dashboard")
                     o == IF m = "missing" THEN "absent" ELSE IF bodyThrows THEN "threw" ELSE "ok"
                 IN /\ collaboratorSeen' = (collaboratorSeen \/ m # "missing")
                    /\ IF bodyThrows /\ r2 = "throws"
                         THEN bot_startupCatch("dashboard", o, "dashboard", bodyLines)
                         ELSE /\ last' = Frame("dashboard", o, bodyLines \cup
                                           (IF bodyThrows
                                              THEN ClientLine(r2, "Failed to launch dashboard")
                                              ELSE {}))
                              /\ pc' = "login"
                              /\ UNCHANGED proc
       ELSE /\ steps' = Append(steps, "initializeMongoose")
            /\ \E o \in CallOutcomes(initializeMongoose), r \in LoggerResults(client) :
                 IF o = "threw" /\ r = "throws"
                   THEN bot_startupCatch("initializeMongoose", o, "initializeMongoose", {})
                   ELSE /\ last' = Frame("initializeMongoose", o,
                                     IF o = "threw"
                                       THEN ClientLine(r, "Failed to initialize database")
                                       ELSE {})
                        /\ pc' = "login"
                        /\ UNCHANGED proc
            /\ UNCHANGED collaboratorSeen
  /\ UNCHANGED <<script, env, checkForUpdates, initializeMongoose, validateConfiguration,
                 BotClient, client, handlers, loginCalls, connected, inFlight, eventsDir, candidate, dashboard>>

\* const token = process.env.BOT_TOKEN; exit(1) without one; await client.login(token);
\* log the success: all inside the startup flow's try.
bot_login ==
  /\ script = "bot" /\ pc = "login" /\ Running
  /\ LET token == env.BOT_TOKEN IN
     IF ~Truthy(token)
       THEN /\ steps' = Append(steps, "tokenCheck")
            /\ \E r \in LoggerResults(client) :
                 IF r = "throws"
                   THEN bot_startupCatch("login", "none", "logger", {})
                   ELSE /\ last' = Frame("login", "none", ClientLine(r, "BOT_TOKEN not set"))
                        /\ Exit(1, "token")
            /\ UNCHANGED <<loginCalls, connected>>
       ELSE \E has \in Capability(client.kind, "login") :
                 IF ~has
                   THEN /\ steps' = Append(steps, "tokenCheck")
                        /\ bot_startupCatch("login", "absent", "login", {})
                        /\ UNCHANGED <<loginCalls, connected>>
                   ELSE /\ steps' = Append(steps, "tokenCheck") \o <<"login">>
                        /\ loginCalls' = Append(loginCalls, token)
                        /\ \E o \in LoginOutcomes(client.kind), r \in LoggerResults(client) :
                             /\ connected' = (o = "ok")
                             /\ IF o = "threw"
                                  THEN bot_startupCatch("login", o, "login", {})
                                  ELSE IF r = "throws"
                                    THEN bot_startupCatch("login", o, "logger", {})
                                    ELSE /\ last' = Frame("login", o,
                                                      ClientLine(r, "Bot started successfully"))
                                         /\ pc' = "done"
                                         /\ UNCHANGED proc
  /\ UNCHANGED <<script, env, checkForUpdates, initializeMongoose, validateConfiguration,
                 BotClient, client, handlers, inFlight, eventsDir, collaboratorSeen, candidate, dashboard>>

\* The listener's body: the client's logger when it has one, console.error otherwise;
\* a throw of the logger is caught and reported through console.error.
bot_handlerLines(r) ==
  CASE r = "absent" -> {<<"console", "unhandledRejection">>}
    [] r = "throws" -> {<<"console", "Error logging unhandledRejection">>}
    [] OTHER -> {<<"client", "unhandledRejection">>}

\* An unhandledRejection event reaches the listener.
bot_unhandledRejection ==
  /\ script = "bot" /\ Running /\ "unhandledRejection" \in handlers
  /\ \E r \in LoggerResults(client) :
       last' = Frame("unhandledRejection", "returned", bot_handlerLines(r))
  /\ UNCHANGED <<script, env, pc, checkForUpdates, initializeMongoose, validateConfiguration,
                 BotClient, client, handlers, proc, steps, loginCalls, connected, inFlight,
                 eventsDir, collaboratorSeen, candidate, dashboard>>

\* A loader's promise, never awaited, settles while the main sequence is suspended;
\* its rejection is an unhandledRejection event.
bot_loaderSettles ==
  /\ script = "bot" /\ Running /\ "unhandledRejection" \in handlers
  /\ \E l \in inFlight, res \in {"resolved", "rejected"}, r \in LoggerResults(client) :
       /\ inFlight' = inFlight \ {l}
       /\ last' = Frame(l, res, IF res = "rejected" THEN bot_handlerLines(r) ELSE {})
  /\ UNCHANGED <<script, env, pc, checkForUpdates, initializeMongoose, validateConfiguration,
                 BotClient, client, handlers, proc, steps, loginCalls, connected,
                 eventsDir, collaboratorSeen, candidate, dashboard>>

(***************************************************************************)
(* src/unnamed/part_000                                                    *)
(***************************************************************************)
\* What one require path can give: no module (require throws), a module without
\* the wanted export, a module with it.
PathStates == {"missing", "noexport", "fn"}

\* require(p1).x || require(p2).x || ..: left to right, the first export that is
\* there wins, a missing module throws, and with no export anywhere the value is
\* undefined.
RECURSIVE RequireChain(_)
RequireChain(paths) ==
  IF paths = <<>> THEN "undef"
  ELSE IF Head(paths) = "missing" THEN "threw"
  ELSE IF Head(paths) = "fn" THEN "fn"
  ELSE RequireChain(Tail(paths))

\* let x = null; try { x = <chain> } catch (e) {}: a function, or null / undefined.
OptionalBinding(paths) == IF RequireChain(paths) = "fn" THEN "fn" ELSE "nullish"

\* console.log(ASCII_BANNER): the first statement of the main async IIFE.
part_banner ==
  /\ script = "part" /\ pc = "start" /\ Running
  /\ pc' = "require"
  /\ steps' = Append(steps, "banner")
  /\ last' = Frame("banner", "none", {<<"console", "banner">>})
  /\ UNCHANGED <<script, env, checkForUpdates, initializeMongoose, validateConfiguration,
                 BotClient, client, handlers, proc, loginCalls, connected, inFlight,
                 eventsDir, collaboratorSeen, candidate, dashboard>>

\* The three optional requires, then BotClient: when its chain throws, the
\* discord.js fallback class, and process.exit(1) when discord.js is missing too.
part_require ==
  /\ script = "part" /\ pc = "require" /\ Running
  /\ steps' = Append(steps, "require")
  /\ \E cu \in [1..2 -> PathStates], im \in [1..2 -> PathStates],
        vc \in [1..3 -> PathStates], bc \in [1..2 -> PathStates], discord \in BOOLEAN :
       /\ checkForUpdates' = OptionalBinding(cu)
       /\ initializeMongoose' = OptionalBinding(im)
       /\ validateConfiguration' = OptionalBinding(vc)
       /\ collaboratorSeen' = ("fn" \in {OptionalBinding(cu), OptionalBinding(im), OptionalBinding(vc)})
       /\ CASE RequireChain(bc) = "fn" ->
                 /\ BotClient' = "class"
                 /\ last' = Frame("require", "ok", {})
                 /\ pc' = "validateConfiguration"
                 /\ UNCHANGED proc
            [] RequireChain(bc) = "undef" ->
                 /\ BotClient' = "undef"
                 /\ last' = Frame("require", "undef", {})
                 /\ pc' = "validateConfiguration"
                 /\ UNCHANGED proc
            [] OTHER ->
                 IF discord
                   THEN /\ BotClient' = "Fallback"
                        /\ last' = Frame("require", "threw",
                                     {<<"console", "Could not require BotClient">>,
                                      <<"console", "Using fallback BotClient">>})
                        /\ pc' = "validateConfiguration"
                        /\ UNCHANGED proc
                   ELSE /\ BotClient' = "nullish"
                        /\ last' = Frame("require", "threw",
                                     {<<"console", "Could not require BotClient">>,
                                      <<"console", "discord.js not installed">>})
                        /\ Exit(1, "client")
  /\ UNCHANGED <<script, env, client, handlers, loginCalls, connected, inFlight, eventsDir,
                 candidate, dashboard>>

\* One optional step of the permissive script:
\*   try { if (typeof f === 'function') { [await] f(); info } else { info } } catch { log }
part_optionalStep(name, binding, next, done, none, failed) ==
  /\ script = "part" /\ pc = name /\ Running
  /\ steps' = Append(steps, name)
  /\ IF binding = "fn"
       THEN \E o \in {"ok", "threw"} :
              last' = Frame(name, o, {<<"console", IF o = "ok" THEN done ELSE failed>>})
       ELSE last' = Frame(name, "absent", {<<"console", none>>})
  /\ pc' = next
  /\ UNCHANGED <<script, env, checkForUpdates, initializeMongoose, validateConfiguration,
                 BotClient, client, handlers, proc, loginCalls, connected, inFlight,
                 eventsDir, collaboratorSeen, candidate, dashboard>>

part_validateConfiguration ==
  part_optionalStep("validateConfiguration", validateConfiguration, "checkForUpdates",
                    "Configuration validated", "No configuration validator found",
                    "Configuration validation failed")

part_checkForUpdates ==
  part_optionalStep("checkForUpdates", checkForUpdates, "initializeMongoose",
                    "Update check complete", "No update checker found",
                    "Error while checking for updates (continuing)")

part_initializeMongoose ==
  part_optionalStep("initializeMongoose", initializeMongoose, "newBotClient",
                    "Mongoose initialized", "No mongoose initializer found",
                    "Failed to initialize mongoose (continuing)")

\* const client = new BotClient(): outside every try, before the listeners exist.
part_newBotClient ==
  /\ script = "part" /\ pc = "newBotClient" /\ Running
  /\ steps' = Append(steps, "newBotClient")
  /\ \/ /\ BotClient # "undef"
        /\ \E c \in NewClients(BotClient) : client' = c
        /\ pc' = "installHandlers"
        /\ last' = Frame("newBotClient", "ok", {})
        /\ UNCHANGED proc
     \/ /\ last' = Frame("newBotClient", "threw", {})
        /\ IIFERejects("constructor")
        /\ UNCHANGED client
  /\ UNCHANGED <<script, env, checkForUpdates, initializeMongoose, validateConfiguration,
                 BotClient, handlers, loginCalls, connected, inFlight, eventsDir,
                 collaboratorSeen, candidate, dashboard>>

\* process.on('unhandledRejection', ..) and process.on('uncaughtException', ..).
part_installHandlers ==
  /\ script = "part" /\ pc = "installHandlers" /\ Running
  /\ handlers' = handlers \cup {"unhandledRejection", "uncaughtException"}
  /\ pc' = "tryLoadCommands"
  /\ steps' = Append(steps, "installHandlers")
  /\ last' = Frame("installHandlers", "none", {})
  /\ UNCHANGED <<script, env, checkForUpdates, initializeMongoose, validateConfiguration,
                 BotClient, client, proc, loginCalls, connected, inFlight, eventsDir,
                 collaboratorSeen, candidate, dashboard>>

\* The .js files a handler directory can hold, in readdir order.
FileSeqs(kinds) == UNION {[1..n -> kinds] : n \in 0..MaxFiles}

\* A command file: require throws (or exports nothing usable), it exports no name,
\* or it exports one of the names.
CommandFiles == {"throws", "noname"} \cup CommandNames

\* A scan that gives up at the first file whose load throws: one warning, and the
\* files after it are never loaded.
RECURSIVE ScanCommands_abort(_, _, _, _)
ScanCommands_abort(files, i, hasMap, acc) ==
  IF i > Len(files) THEN acc
  ELSE IF files[i] = "throws" THEN [acc EXCEPT !.warnings = @ + 1]
  ELSE ScanCommands_abort(files, i + 1, hasMap,
         IF hasMap /\ files[i] \in CommandNames
           THEN [acc EXCEPT !.registered = @ + 1, !.commands = @ \cup {files[i]}]
           ELSE acc)

\* The for loop of tryLoadCommands over the files from position i on: each file in
\* its own try; commands.set(cmd.name, cmd) when the client has a commands map and
\* the file exports a name; a warning for each file whose try throws.
RECURSIVE ScanCommands(_, _, _, _)
ScanCommands(files, i, hasMap, acc) ==
  IF i > Len(files) THEN acc
  ELSE ScanCommands(files, i + 1, hasMap,
         CASE files[i] = "throws" -> [acc EXCEPT !.warnings = @ + 1]
           [] hasMap /\ files[i] \in CommandNames ->
                [acc EXCEPT !.registered = @ + 1, !.commands = @ \cup {files[i]}]
           [] OTHER -> acc)

\* An event file: require throws, it exports a function, an object with execute,
\* or anything else.
EventFiles == {"throws", "fn", "exec", "other"}

\* The for loop of tryLoadEvents: clientInstance.on(..) for a function or an object
\* with execute, nothing for any other export, a warning when the try throws.
RECURSIVE ScanEvents(_, _, _)
ScanEvents(files, i, acc) ==
  IF i > Len(files) THEN acc
  ELSE ScanEvents(files, i + 1,
         CASE files[i] = "throws" -> [acc EXCEPT !.warnings = @ + 1]
           [] files[i] \in {"fn", "exec"} -> [acc EXCEPT !.registered = @ + 1]
           [] OTHER -> acc)

ScanStart(native, dir, hasMap, files) ==
  [native |-> native, dir |-> dir, hasMap |-> hasMap, files |-> files,
   registered |-> 0, warnings |-> 0, commands |-> {}]

\* The outcomes of awaiting a client's own loader: the client has none, it
\* completes, it throws or rejects.
NativeOutcomes(kind, name) ==
  {IF has THEN o ELSE "absent" : has \in Capability(kind, name), o \in {"ok", "threw"}}

\* log.warn('client.loadCommands() threw an error:', err) in the catch around the
\* client's own loader.
NativeWarning(native) ==
  IF native = "threw" THEN {<<"console", "client loader threw an error">>} ELSE {}

\* A loader that scans the directory whatever the client's own loader did.
ScanNeeded_always(native) == TRUE

\* The client's own loader ends the function with return only when it completed:
\* without one, or after it threw, control reaches the directory scan.
ScanNeeded(native) == native # "ok"

\* await tryLoadCommands(client): the client's loadCommands when it has one; the
\* scan of src/commands when it has none or it threw.
part_tryLoadCommands ==
  /\ script = "part" /\ pc = "tryLoadCommands" /\ Running
  /\ \E native \in NativeOutcomes(client.kind, "loadCommands") :
       /\ collaboratorSeen' = (collaboratorSeen \/ (native # "absent" /\ client.kind = "class"))
       /\ IF ~ScanNeeded(native)
            THEN /\ last' = [Frame("tryLoadCommands", native,
                                   {<<"console", "Commands loaded via client.loadCommands()">>})
                               EXCEPT !.scan = ScanStart(native, "none", FALSE, <<>>)]
            ELSE \E exists \in BOOLEAN :
                   IF exists
                     THEN \E files \in FileSeqs(CommandFiles),
                             hasMap \in (IF client.kind = "class" THEN BOOLEAN ELSE {FALSE}) :
                            /\ last' = [Frame("tryLoadCommands", native,
                                              NativeWarning(native) \cup {<<"console", "Commands loaded from src/commands (fallback)">>})
                                          EXCEPT !.scan = ScanCommands(files, 1, hasMap,
                                                            ScanStart(native, "present", hasMap, files))]
                     ELSE /\ last' = [Frame("tryLoadCommands", native,
                                            NativeWarning(native) \cup {<<"console", "No commands loader found">>})
                                        EXCEPT !.scan = ScanStart(native, "absent", FALSE, <<>>)]
  /\ pc' = "tryLoadEvents"
  /\ steps' = Append(steps, "tryLoadCommands")
  /\ UNCHANGED <<script, env, checkForUpdates, initializeMongoose, validateConfiguration,
                 BotClient, client, handlers, proc, loginCalls, connected, inFlight,
                 eventsDir, candidate, dashboard>>

\* await tryLoadEvents(client): the client's loadEvents when it has one; the scan
\* of src/events when it has none or it threw.
part_tryLoadEvents ==
  /\ script = "part" /\ pc = "tryLoadEvents" /\ Running
  /\ \E native \in NativeOutcomes(client.kind, "loadEvents") :
       /\ collaboratorSeen' = (collaboratorSeen \/ (native # "absent" /\ client.kind = "class"))
       /\ IF ~ScanNeeded(native)
            THEN /\ last' = [Frame("tryLoadEvents", native,
                                   {<<"console", "Events loaded via client.loadEvents()">>})
                               EXCEPT !.scan = ScanStart(native, "none", FALSE, <<>>)]
                 /\ UNCHANGED eventsDir
            ELSE \E exists \in BOOLEAN :
                   IF exists
                     THEN /\ eventsDir' = "present"
                          /\ \E files \in FileSeqs(EventFiles) :
                               /\ last' = [Frame("tryLoadEvents", native,
                                                 NativeWarning(native) \cup {<<"console", "Events loaded from src/events (fallback)">>})
                                             EXCEPT !.scan = ScanEvents(files, 1,
                                                               ScanStart(native, "present", FALSE, files))]
                     ELSE /\ eventsDir' = "absent"
                          /\ last' = [Frame("tryLoadEvents", native,
                                            NativeWarning(native) \cup {<<"console", "No events loader found">>})
                                        EXCEPT !.scan = ScanStart(native, "absent", FALSE, <<>>)]
  /\ pc' = "registerEvents"
  /\ steps' = Append(steps, "tryLoadEvents")
  /\ UNCHANGED <<script, env, checkForUpdates, initializeMongoose, validateConfiguration,
                 BotClient, client, handlers, proc, loginCalls, connected, inFlight,
                 candidate, dashboard>>

\* if (client.registerEvents && fs.existsSync(eventsDir)) await client.registerEvents(eventsDir),
\* in a try whose catch ignores the error.
part_registerEvents ==
  /\ script = "part" /\ pc = "registerEvents" /\ Running
  /\ \E has \in (IF client.kind = "class" THEN BOOLEAN ELSE {FALSE}),
        exists \in (IF eventsDir = "unknown" THEN BOOLEAN ELSE {eventsDir = "present"}),
        o \in {"ok", "threw"} :
       /\ eventsDir' = IF ~has THEN eventsDir ELSE IF exists THEN "present" ELSE "absent"
       /\ collaboratorSeen' = (collaboratorSeen \/ has)
       /\ IF has /\ exists
            THEN /\ last' = Frame("registerEvents", o,
                              IF o = "ok" THEN {<<"console", "client.registerEvents(eventsDir) invoked">>}
                                          ELSE {})
            ELSE /\ last' = Frame("registerEvents", "absent", {})
  /\ pc' = "tryLaunchDashboard"
  /\ steps' = Append(steps, "registerEvents")
  /\ candidate' = 1
  /\ UNCHANGED <<script, env, checkForUpdates, initializeMongoose, validateConfiguration,
                 BotClient, client, handlers, proc, loginCalls, connected, inFlight,
                 dashboard>>

\* The number of entries of dashboardLauncherPaths.
LauncherPaths == 4

\* What one candidate path can hold: no file, a file whose require throws, a module
\* with a launch function or that is itself a function (completing or throwing),
\* a module with neither.
CandidateStates ==
  {"absent", "requireThrows", "launchOk", "launchThrows", "fnOk", "fnThrows", "noLaunch"}

\* await launcher.launch(clientInstance) / await launcher(clientInstance) completed.
Completes(c) == c \in {"launchOk", "fnOk"}

\* A loop that goes on to the next path after a launch that completed.
ReturnsTrue_never(c) == FALSE

\* return true: the statement after the await of a launch that completed.
ReturnsTrue(c) == Completes(c)

\* One iteration of the for loop of tryLaunchDashboard: the first launcher that
\* completes ends the function with true; every other outcome goes on to the next path.
part_dashboardCandidate ==
  /\ script = "part" /\ pc = "tryLaunchDashboard" /\ Running
  /\ candidate \in 1..LauncherPaths
  /\ \E c \in CandidateStates :
       /\ steps' = IF candidate = 1 THEN Append(steps, "tryLaunchDashboard") ELSE steps
       /\ collaboratorSeen' = (collaboratorSeen \/ c # "absent")
       /\ IF ReturnsTrue(c)
            THEN /\ last' = Frame("tryLaunchDashboard", "ok", {<<"console", "Dashboard launched via">>})
                 /\ dashboard' = [completed |-> dashboard.completed + 1, result |-> "true"]
                 /\ pc' = "login"
                 /\ candidate' = 0
            ELSE /\ last' = Frame("tryLaunchDashboard",
                                  IF c = "absent" THEN "absent" ELSE "threw",
                                  CASE c = "absent" -> {}
                                    [] c = "noLaunch" -> {<<"console", "Dashboard file found but no launch function">>}
                                    [] Completes(c) -> {<<"console", "Dashboard launched via">>}
                                    [] OTHER -> {<<"console", "Dashboard launcher failed">>})
                 /\ dashboard' = [dashboard EXCEPT !.completed = IF Completes(c) THEN @ + 1 ELSE @]
                 /\ pc' = pc
                 /\ candidate' = candidate + 1
  /\ UNCHANGED <<script, env, checkForUpdates, initializeMongoose, validateConfiguration,
                 BotClient, client, handlers, proc, loginCalls, connected, inFlight, eventsDir>>

\* After the loop: require('./dashboard') in a try whose catch ignores the error;
\* return true after its launch completed, or the closing message and return false.
part_dashboardFallback ==
  /\ script = "part" /\ pc = "tryLaunchDashboard" /\ Running
  /\ candidate = LauncherPaths + 1
  /\ \E c \in {"requireThrows", "launchOk", "launchThrows", "noLaunch"} :
       /\ collaboratorSeen' = (collaboratorSeen \/ c # "requireThrows")
       /\ IF Completes(c)
            THEN /\ last' = Frame("tryLaunchDashboard", "ok",
                                  {<<"console", "Dashboard launched via ./dashboard export">>})
                 /\ dashboard' = [completed |-> dashboard.completed + 1, result |-> "true"]
            ELSE /\ last' = Frame("tryLaunchDashboard", "none",
                                  {<<"console", "No dashboard detected or launcher failed">>})
                 /\ dashboard' = [dashboard EXCEPT !.result = "false"]
  /\ pc' = "login"
  /\ candidate' = 0
  /\ UNCHANGED <<script, env, checkForUpdates, initializeMongoose, validateConfiguration,
                 BotClient, client, handlers, proc, steps, loginCalls, connected, inFlight,
                 eventsDir>>

\* const token = process.env.BOT_TOKEN || process.env.TOKEN; process.exit(1) without
\* one; client.login(token) when login is a function, in a try whose catch exits.
part_login ==
  /\ script = "part" /\ pc = "login" /\ Running
  /\ LET token == OrElse(env.BOT_TOKEN, env.TOKEN) IN
     IF ~Truthy(token)
       THEN /\ steps' = Append(steps, "tokenCheck")
            /\ last' = Frame("login", "none", {<<"console", "No BOT_TOKEN found in environment">>})
            /\ Exit(1, "token")
            /\ UNCHANGED <<loginCalls, connected>>
       ELSE \E has \in Capability(client.kind, "login") :
                 IF ~has
                   THEN /\ steps' = Append(steps, "tokenCheck")
                        /\ last' = Frame("login", "absent", {<<"console", "client.login is not a function">>})
                        /\ pc' = "done"
                        /\ UNCHANGED <<loginCalls, connected, proc>>
                   ELSE /\ steps' = Append(steps, "tokenCheck") \o <<"login">>
                        /\ loginCalls' = Append(loginCalls, token)
                        /\ \E o \in LoginOutcomes(client.kind) :
                             /\ connected' = (o = "ok")
                             /\ IF o = "ok"
                                  THEN /\ last' = Frame("login", o, {<<"console", "Bot logged in successfully">>})
                                       /\ pc' = "done"
                                       /\ UNCHANGED proc
                                  ELSE /\ last' = Frame("login", o, {<<"console", "Failed to login">>})
                                       /\ Exit(1, "login")
  /\ UNCHANGED <<script, env, checkForUpdates, initializeMongoose, validateConfiguration,
                 BotClient, client, handlers, inFlight, eventsDir, collaboratorSeen, candidate, dashboard>>

\* The body of both listeners: client?.logger?.error?.(..) || log.error(..).
\* Without a logger only log.error runs; a falsy return of the client's logger
\* runs log.error as well; a truthy return does not; a throw leaves the listener.
part_handlerLines(r, tag) ==
  CASE r = "absent" -> {<<"console", tag>>}
    [] r = "falsy" -> {<<"client", tag>>, <<"console", tag>>}
    [] r = "truthy" -> {<<"client", tag>>}
    [] OTHER -> {}

\* An uncaughtException event reaches its listener; an exception thrown by the
\* listener itself ends the process (Node's exit code 7).
part_uncaughtException ==
  /\ script = "part" /\ Running /\ "uncaughtException" \in handlers
  /\ \E r \in LoggerResults(client) :
       IF r = "throws"
         THEN /\ last' = Frame("uncaughtException", "threw", {})
              /\ proc' = [status |-> "crashed", code |-> 7, cause |-> "handler"]
              /\ pc' = "crashed"
         ELSE /\ last' = Frame("uncaughtException", "returned",
                               part_handlerLines(r, "Uncaught Exception"))
              /\ UNCHANGED <<proc, pc>>
  /\ UNCHANGED <<script, env, checkForUpdates, initializeMongoose, validateConfiguration,
                 BotClient, client, handlers, steps, loginCalls, connected, inFlight,
                 eventsDir, collaboratorSeen, candidate, dashboard>>

\* An unhandledRejection event reaches its listener; an exception thrown by the
\* listener is an uncaught exception, which the other listener then receives.
part_unhandledRejection ==
  /\ script = "part" /\ Running /\ "unhandledRejection" \in handlers
  /\ \E r \in LoggerResults(client), r2 \in LoggerResults(client) :
       IF r = "throws"
         THEN IF r2 = "throws"
                THEN /\ last' = Frame("unhandledRejection", "threw", {})
                     /\ proc' = [status |-> "crashed", code |-> 7, cause |-> "handler"]
                     /\ pc' = "crashed"
                ELSE /\ last' = Frame("unhandledRejection", "threw",
                                      part_handlerLines(r2, "Uncaught Exception"))
                     /\ UNCHANGED <<proc, pc>>
         ELSE /\ last' = Frame("unhandledRejection", "returned",
                               part_handlerLines(r, "Unhandled Rejection"))
              /\ UNCHANGED <<proc, pc>>
  /\ UNCHANGED <<script, env, checkForUpdates, initializeMongoose, validateConfiguration,
                 BotClient, client, handlers, steps, loginCalls, connected, inFlight,
                 eventsDir, collaboratorSeen, candidate, dashboard>>


(***************************************************************************)
(* The runs.                                                               *)
(***************************************************************************)
Init ==
  /\ script \in {"bot", "part"}
  /\ env \in [BOT_TOKEN : PrimaryValues, TOKEN : AlternateValues]
  /\ pc = "start"
  /\ checkForUpdates = "unbound"
  /\ initializeMongoose = "unbound"
  /\ validateConfiguration = "unbound"
  /\ BotClient = "unbound"
  /\ client = NoClient
  /\ handlers = {}
  /\ proc = [status |-> "running", code |-> NoCode, cause |-> "none"]
  /\ steps = <<>>
  /\ loginCalls = <<>>
  /\ connected = FALSE
  /\ inFlight = {}
  /\ eventsDir = "unknown"
  /\ collaboratorSeen = FALSE
  /\ candidate = 0
  /\ dashboard = NoLaunch
  /\ last = Frame("init", "none", {})

Next ==
  \/ bot_require
  \/ bot_printStartupBanner
  \/ bot_validateConfiguration
  \/ bot_newBotClient
  \/ bot_loadCommands
  \/ bot_loadCommandTests
  \/ bot_loadEvents
  \/ bot_installHandler
  \/ bot_checkForUpdates
  \/ bot_dashboardOrDb
  \/ bot_login
  \/ bot_unhandledRejection
  \/ bot_loaderSettles
  \/ part_banner
  \/ part_require
  \/ part_validateConfiguration
  \/ part_checkForUpdates
  \/ part_initializeMongoose
  \/ part_newBotClient
  \/ part_installHandlers
  \/ part_tryLoadCommands
  \/ part_tryLoadEvents
  \/ part_registerEvents
  \/ part_dashboardCandidate
  \/ part_dashboardFallback
  \/ part_login
  \/ part_unhandledRejection
  \/ part_uncaughtException

Spec == Init /\ [][Next]_vars

\* One step of the main async IIFE of either script.
MainStep ==
  \/ bot_require \/ bot_printStartupBanner \/ bot_validateConfiguration \/ bot_newBotClient
  \/ bot_loadCommands \/ bot_loadCommandTests \/ bot_loadEvents \/ bot_installHandler
  \/ bot_checkForUpdates \/ bot_dashboardOrDb \/ bot_login
  \/ part_banner \/ part_require \/ part_validateConfiguration \/ part_checkForUpdates
  \/ part_initializeMongoose \/ part_newBotClient \/ part_installHandlers
  \/ part_tryLoadCommands \/ part_tryLoadEvents \/ part_registerEvents
  \/ part_dashboardCandidate \/ part_dashboardFallback \/ part_login

\* The runs in which every collaborator call returns or throws: the event loop
\* resumes the main sequence after each await, so a step that can run does run.
\* Process-level events may or may not occur.
FairSpec == Spec /\ WF_vars(MainStep)


(***************************************************************************)
(* Vocabulary of the properties.                                           *)
(***************************************************************************)
Range(s) == {s[i] : i \in DOMAIN s}

Did(step) == step \in Range(steps)

\* The main sequence is over: it finished, the process exited or died, or the
\* IIFE's promise was rejected.
Ended == pc \in {"done", "exited", "crashed", "aborted"}

ExitedWith1 == proc.status = "exited" /\ proc.code = 1

\* The process ended with status 1, by process.exit(1) or by Node.
EndedWith1 == proc.status \in {"exited", "crashed"} /\ proc.code = 1

NoToken == ~Truthy(env.BOT_TOKEN) /\ ~Truthy(env.TOKEN)

Logged(tag) == \E line \in last.out : line[2] = tag

FailureTags == {"Startup error", "Failed to login"}

SuccessTags == {"Bot started successfully", "Bot logged in successfully"}

\* The steps that come after the client class is resolved.
LaterSteps == {"validateConfiguration", "checkForUpdates", "initializeMongoose",
               "loadCommands", "loadCommandTests", "loadEvents", "tryLoadCommands",
               "tryLoadEvents", "registerEvents", "dashboard", "tryLaunchDashboard", "login"}

(***************************************************************************)
(* C1  In every run without a bot token in the environment the process     *)
(* ends with status 1 and client.login is never called.                    *)
(***************************************************************************)
C1_NoTokenExits ==
  (Ended /\ NoToken) => (EndedWith1 /\ loginCalls = <<>>)

(***************************************************************************)
(* C2  Whenever client.login(token) throws or rejects, the failure is      *)
(* logged, the process exits with status 1, login was called once and no   *)
(* success message is logged.                                              *)
(***************************************************************************)
C2_LoginFailureFatal ==
  (last.act = "login" /\ last.outcome = "threw") =>
     /\ \E tag \in FailureTags : Logged(tag)
     /\ ExitedWith1
     /\ Len(loginCalls) = 1
     /\ \A tag \in SuccessTags : ~Logged(tag)

(***************************************************************************)
(* C3  With a token set and a client constructed, whatever the optional    *)
(* collaborators do, the run reaches the login step: process.exit is not   *)
(* called before the token check.                                          *)
(***************************************************************************)
C3_OptionalStepsNeverFatal ==
  (Truthy(env.BOT_TOKEN) /\ client.kind # "none" /\ proc.status = "exited") => Did("tokenCheck")

(***************************************************************************)
(* C4  A failure of the update check is never fatal: it is logged, the     *)
(* process keeps running and the next step is the one that follows a       *)
(* successful update check.                                                *)
(***************************************************************************)
C4_UpdateFailureNonFatal ==
  (last.act = "checkForUpdates" /\ last.outcome = "threw") =>
     /\ Running
     /\ pc = (IF script = "bot" THEN "dashboardOrDb" ELSE "initializeMongoose")
     /\ last.out # {}

(***************************************************************************)
(* C5  When the client module loads but exports no BotClient, the process  *)
(* exits with status 1 before any later step is executed.                  *)
(***************************************************************************)
C5_NoClientClassExits ==
  (BotClient = "undef") =>
     /\ Range(steps) \cap LaterSteps = {}
     /\ Ended => ExitedWith1

(***************************************************************************)
(* C6  Directory scan of tryLoadCommands / tryLoadEvents.                  *)
(***************************************************************************)
\* The files of the scanned directory whose load throws.
LoadFailures(files) == {i \in DOMAIN files : files[i] = "throws"}

\* The files the loop registers: a command file that exports a name, when the
\* client has a commands map; an event file that exports a function or an object
\* with execute.
Registrable(files) ==
  {i \in DOMAIN files :
     IF last.act = "tryLoadCommands"
       THEN last.scan.hasMap /\ files[i] \in CommandNames
       ELSE files[i] \in {"fn", "exec"}}

Scanned == last.act \in {"tryLoadCommands", "tryLoadEvents"} /\ last.scan.dir = "present"

PastBranch == pc = "login" \/ Did("tokenCheck")

C7_DashboardDbPolicy ==
  /\ script = "bot" =>
       /\ ~(Did("dashboard") /\ Did("initializeMongoose"))
       /\ Did("initializeMongoose") => ~client.dashboard
       /\ Did("dashboard") => client.dashboard
       /\ PastBranch => (Did("initializeMongoose") <=> ~client.dashboard)
       /\ PastBranch => (Did("dashboard") <=> client.dashboard)
  /\ script = "part" =>
       /\ Did("newBotClient") => Did("initializeMongoose")
       /\ PastBranch => (Did("initializeMongoose") /\ Did("tryLaunchDashboard"))

\* bot.js took the dashboard branch with the flag set and skipped the database.
C7_Witness ==
  /\ script = "bot" /\ PastBranch
  /\ client.dashboard /\ Did("dashboard") /\ ~Did("initializeMongoose")

(***************************************************************************)
(* C8  With a token, no optional collaborator present and a login that     *)
(* succeeds, the run logs a success message, login was called once with    *)
(* the token, and process.exit is never called.                            *)
(***************************************************************************)
C8_HappyPath ==
  (last.act = "login" /\ connected /\ ~collaboratorSeen /\ Truthy(env.BOT_TOKEN)) =>
     /\ Running /\ pc = "done"
     /\ \E tag \in SuccessTags : Logged(tag)
     /\ loginCalls = <<env.BOT_TOKEN>>
     /\ Did("banner")

(***************************************************************************)
(* C9  The token is BOT_TOKEN when that is set, TOKEN otherwise: with      *)
(* only TOKEN set, login is called with TOKEN's value and the run is not   *)
(* a missing-token failure.                                                *)
(***************************************************************************)
C9_TokenFallback ==
  /\ (Truthy(env.BOT_TOKEN) /\ loginCalls # <<>>) => loginCalls[1] = env.BOT_TOKEN
  /\ (~Truthy(env.BOT_TOKEN) /\ Truthy(env.TOKEN)) =>
       /\ proc.cause # "token"
       /\ loginCalls # <<>> => loginCalls[1] = env.TOKEN

(***************************************************************************)
(* C10  A process-level failure handler only records: every invocation     *)
(* returns without throwing and leaves the process running.                *)
(***************************************************************************)
C10_HandlersOnlyRecord ==
  (last.act \in {"unhandledRejection", "uncaughtException"}) =>
     (last.outcome = "returned" /\ Running)

(***************************************************************************)
(* C11  When the configuration validator throws, part_000 logs the error   *)
(* and continues with the next step, and its runs that reach login have    *)
(* executed every step in between; bot.js logs the error and exits with    *)
(* status 1 before the client is constructed and before any later step.    *)
(***************************************************************************)
ValidationFailed == last.act = "validateConfiguration" /\ last.outcome = "threw"

\* The steps of part_000 between configuration validation and login.
PartRemainingSteps ==
  {"checkForUpdates", "initializeMongoose", "newBotClient", "installHandlers",
   "tryLoadCommands", "tryLoadEvents", "registerEvents", "tryLaunchDashboard"}

\* The steps of bot.js after configuration validation.
BotRemainingSteps ==
  {"newBotClient", "loadCommands", "loadCommandTests", "loadEvents", "installHandlers",
   "checkForUpdates", "dashboard", "initializeMongoose", "tokenCheck", "login"}

C11_ValidationPolicy ==
  /\ (script = "part" /\ ValidationFailed) =>
       /\ Running /\ pc = "checkForUpdates"
       /\ Logged("Configuration validation failed")
  /\ script = "part" =>
       /\ proc.cause # "validation"
       /\ Did("tokenCheck") => PartRemainingSteps \subseteq Range(steps)
  /\ (script = "bot" /\ ValidationFailed) =>
       /\ ExitedWith1 /\ proc.cause = "validation"
       /\ Logged("Configuration validation failed")
       /\ client = NoClient
       /\ Range(steps) \cap BotRemainingSteps = {}
  /\ (script = "bot" /\ proc.cause = "validation") =>
       (ExitedWith1 /\ client = NoClient /\ Range(steps) \cap BotRemainingSteps = {})

\* The validator of part_000 has thrown and the run goes on with the update check.
C11_Witness ==
  /\ script = "part" /\ ValidationFailed
  /\ Running /\ pc = "checkForUpdates"

(***************************************************************************)
(* C12  process.exit(1) is reached only from a missing client type, a      *)
(* missing token, a login failure or the validation-failure exit policy:   *)
(* never from the update check, the database init, the dashboard launch    *)
(* or command/event loading.                                               *)
(***************************************************************************)
FatalCauses == {"client", "token", "login", "validation"}

C12_ExitCauses ==
  ExitedWith1 => proc.cause \in FatalCauses

(***************************************************************************)
(* C13  The client exists before any other initialization step runs: when  *)
(* configuration validation, the update check, the database init, the      *)
(* dashboard launch or command/event loading has started, the client has   *)
(* already been constructed.                                               *)
(***************************************************************************)
InitializationSteps ==
  {"validateConfiguration", "checkForUpdates", "initializeMongoose", "dashboard",
   "tryLaunchDashboard", "loadCommands", "loadCommandTests", "loadEvents",
   "tryLoadCommands", "tryLoadEvents", "registerEvents"}

C13_ClientFirst ==
  (Range(steps) \cap InitializationSteps # {}) => Did("newBotClient")

(***************************************************************************)
(* C14  The steps of a run occur in this relative order: banner output,    *)
(* configuration validation, update check, dashboard launch and/or         *)
(* database init, command loading, event loading, login; no step starts    *)
(* before the steps that precede it in the list.                           *)
(***************************************************************************)
\* The place of a step in the documented order; 0 for a step the list does not name.
DocumentedRank(step) ==
  CASE step = "banner" -> 1
    [] step = "validateConfiguration" -> 2
    [] step = "checkForUpdates" -> 3
    [] step \in {"dashboard", "tryLaunchDashboard", "initializeMongoose"} -> 4
    [] step \in {"loadCommands", "loadCommandTests", "tryLoadCommands"} -> 5
    [] step \in {"loadEvents", "tryLoadEvents", "registerEvents"} -> 6
    [] step \in {"tokenCheck", "login"} -> 7
    [] OTHER -> 0

C14_DocumentedOrder ==
  \A i \in DOMAIN steps, j \in DOMAIN steps :
    (i < j /\ DocumentedRank(steps[i]) > 0 /\ DocumentedRank(steps[j]) > 0) =>
       DocumentedRank(steps[i]) <= DocumentedRank(steps[j])

(***************************************************************************)
(* C15  Both process-level handlers are installed after the client is      *)
(* constructed and before the update check, the database init, the         *)
(* dashboard launch and command/event loading begin.                       *)
(***************************************************************************)
BothHandlers == {"unhandledRejection", "uncaughtException"}

GuardedSteps ==
  {"checkForUpdates", "initializeMongoose", "dashboard", "tryLaunchDashboard",
   "loadCommands", "loadCommandTests", "loadEvents",
   "tryLoadCommands", "tryLoadEvents", "registerEvents"}

C15_HandlersBeforeSteps ==
  /\ handlers # {} => (Did("newBotClient") /\ client # NoClient)
  /\ (Range(steps) \cap GuardedSteps # {}) => BothHandlers \subseteq handlers

(***************************************************************************)
(* C16  Each invocation of a process-level failure handler records the     *)
(* failure through exactly one sink: the client's logger when the client   *)
(* has one, the fallback console logger otherwise; never both, never       *)
(* neither.                                                                *)
(***************************************************************************)
HandlerRan == last.act \in {"unhandledRejection", "uncaughtException"}

\* The sinks the most recent action wrote to.
Sinks == {line[1] : line \in last.out}

C16_ExactlyOneSink ==
  HandlerRan => Sinks = (IF client.logger THEN {"client"} ELSE {"console"})

(***************************************************************************)
(* C17  The orchestration is strictly sequential: every asynchronous step  *)
(* has resolved or rejected before the next step begins, so no step is     *)
(* still in progress once the sequence has moved on, and a loader's        *)
(* asynchronous failure is observed at its own step.                       *)
(***************************************************************************)
\* A loader's promise settled by rejection after the sequence had left its step.
LateLoaderFailure ==
  last.act \in {"loadCommands", "loadCommandTests", "loadEvents"} /\ last.outcome = "rejected"

C17_StrictlySequential ==
  /\ inFlight = {}
  /\ ~LateLoaderFailure

(***************************************************************************)
(* C18  Command and event loading of part_000: the client's own loader     *)
(* against the directory-scan fallback.                                    *)
(***************************************************************************)
LoaderRan == script = "part" /\ last.act \in {"tryLoadCommands", "tryLoadEvents"}

\* The client exposed its own loader and it was called.
NativeRan == last.scan.native \in {"ok", "threw"}

\* The fallback ran: it looked for the directory and scanned it when it was there.
FallbackRan == last.scan.dir \in {"present", "absent"}

\* C18 as claimed: the fallback runs if and only if the client exposes no loader of
\* its own; the two strategies are never both executed in one run.
C18_NativeXorScan ==
  LoaderRan => (FallbackRan <=> ~NativeRan)

\* C18 as amended: the client's own loader is called whenever the client exposes
\* one; the fallback runs if and only if the client exposes none or its loader
\* threw; after a loader of the client that completed, the fallback never runs and
\* registers nothing.
C18_ScanUnlessNativeCompleted ==
  LoaderRan =>
     /\ last.scan.native \in {"absent", "ok", "threw"}
     /\ FallbackRan <=> last.scan.native \in {"absent", "threw"}
     /\ last.scan.native = "ok" =>
          (last.scan.registered = 0 /\ last.scan.warnings = 0 /\ last.scan.files = <<>>)

\* The client's own loader threw and the scan then registered a handler.
C18_Witness ==
  /\ LoaderRan
  /\ last.scan.native = "threw"
  /\ last.scan.dir = "present"
  /\ last.scan.registered > 0

(***************************************************************************)
(* C19  When every collaborator call returns or throws, every run          *)
(* eventually reaches exactly one of the two terminal states and stays     *)
(* there: LoggedIn (client.login returned successfully) or FatalExit       *)
(* (process exit with status 1).                                           *)
(***************************************************************************)
LoggedIn == connected

\* The process ended with status 1: by process.exit(1), or by Node on an unhandled
\* rejection of the main sequence.
FatalExit == EndedWith1

C19_Terminates ==
  <>[]((LoggedIn \/ FatalExit) /\ ~(LoggedIn /\ FatalExit))

(***************************************************************************)
(* C20  In part_000 at most one event-registration mechanism is executed   *)
(* per run: the client's own loadEvents, the directory-scan binding of     *)
(* tryLoadEvents, or client.registerEvents(eventsDir).                     *)
(***************************************************************************)
\* The mechanisms tryLoadEvents executed, read from its frame: the client's own
\* loader when it was called, the scan when it bound at least one handler.
LoadEventsMechanisms(frame) ==
  (IF frame.scan.native \in {"ok", "threw"} THEN {"loadEvents"} ELSE {}) \cup
  (IF frame.scan.dir = "present" /\ frame.scan.registered > 0 THEN {"scan"} ELSE {})

\* client.registerEvents(eventsDir) was called by the step that wrote the frame.
RegisterEventsMechanisms(frame) ==
  IF frame.act = "registerEvents" /\ frame.outcome \in {"ok", "threw"}
    THEN {"registerEvents"} ELSE {}

C20_OneEventMechanism ==
  [][(script = "part" /\ last.act = "tryLoadEvents" /\ last'.act = "registerEvents") =>
        Cardinality(LoadEventsMechanisms(last) \cup RegisterEventsMechanisms(last')) <= 1]_vars

(***************************************************************************)
(* C21  tryLaunchDashboard of part_000 completes at most one dashboard     *)
(* launch per run: the candidate paths are tried in their fixed order; a   *)
(* candidate that throws or has no launch function is skipped with a       *)
(* warning and the next one is tried; once a launcher has completed no     *)
(* further launcher, the './dashboard' fallback included, is invoked; the  *)
(* function returns true exactly when a launch completed.                  *)
(***************************************************************************)
LaunchWarnings ==
  {"Dashboard file found but no launch function", "Dashboard launcher failed"}

\* A candidate of the path list was found and did not complete a launch.
CandidateSkipped == last.act = "tryLaunchDashboard" /\ last.outcome = "threw"

C21_LaunchState ==
  /\ dashboard.completed <= 1
  /\ dashboard.result = "none" => dashboard.completed = 0
  /\ dashboard.result = "true" <=> dashboard.completed = 1
  /\ dashboard.result # "none" => (candidate = 0 /\ pc # "tryLaunchDashboard")
  /\ CandidateSkipped =>
       /\ \E w \in LaunchWarnings : Logged(w)
       /\ Running /\ pc = "tryLaunchDashboard"
       /\ candidate \in 2..(LauncherPaths + 1)
       /\ dashboard = NoLaunch

C21_LaunchStep ==
  /\ (pc = "tryLaunchDashboard" /\ candidate' # candidate) =>
       \/ candidate' = candidate + 1 /\ pc' = pc /\ dashboard' = dashboard
       \/ candidate' = 0 /\ pc' = "login" /\ dashboard'.result \in {"true", "false"}
  /\ dashboard.result # "none" => dashboard' = dashboard

C21_AtMostOneLaunch ==
  [](C21_LaunchState) /\ [][C21_LaunchStep]_vars

\* Every path of the list was passed over and the './dashboard' fallback completed
\* the one launch of the run.
C21_Witness ==
  /\ script = "part" /\ last.act = "tryLaunchDashboard" /\ last.outcome = "ok"
  /\ Logged("Dashboard launched via ./dashboard export")
  /\ dashboard = [completed |-> 1, result |-> "true"]
  /\ pc = "login" /\ candidate = 0
====
